---- MODULE Spec2Model ----
(***************************************************************************)
(* Model of base_export_manager's ir.exports.line extension                *)
(* (models/ir_exports_line.py): the synchronisation between the stored     *)
(* path string `name`, the four selectors field1_id..field4_id, the        *)
(* dependent models model2_id..model4_id and the label, with the           *)
(* constraint _check_name.                                                 *)
(*                                                                         *)
(* Strings are sequences of one-character strings, so that split("/"),     *)
(* "/".join, the ".id" alias and '"2" in ttype' are computed, not assumed. *)
(* An unset reference (empty recordset / False) is Unset; an unset string  *)
(* (False or "") is the empty sequence: the code only tests truthiness.    *)
(***************************************************************************)
EXTENDS Integers, Sequences, FiniteSets, TLC

VARIABLES lines, pc, op, cur, parts, num, saved, err, nchecks, nlookups, nassigned

vars == <<lines, pc, op, cur, parts, num, saved, err, nchecks, nlookups, nassigned>>

----------------------------------------------------------------------------
(* Bounds of the exploration *)

MaxSegs == 5
SibNumLines == 2

(* Program constants *)

MaxDepth == 4
Unset == 0

Levels == 1..MaxDepth

----------------------------------------------------------------------------
(* Strings *)

EmptyStr == <<>>
Slash == "/"

Contains(c, s) == \E i \in 1..Len(s) : s[i] = c

RECURSIVE SplitFrom(_, _, _)
SplitFrom(s, i, acc) ==
    IF i > Len(s) THEN <<acc>>
    ELSE IF s[i] = Slash THEN <<acc>> \o SplitFrom(s, i + 1, EmptyStr)
    ELSE SplitFrom(s, i + 1, Append(acc, s[i]))

Split(s) == SplitFrom(s, 1, EmptyStr)

RECURSIVE Join(_)
Join(ss) ==
    IF ss = <<>> THEN EmptyStr
    ELSE IF Len(ss) = 1 THEN ss[1]
    ELSE ss[1] \o <<Slash>> \o Join(Tail(ss))

AnyPart(ps) == \E i \in 1..Len(ps) : ps[i] # EmptyStr

----------------------------------------------------------------------------
(* The metadata catalogue the code searches: ir.model, ir.model.fields and *)
(* the live registry env[model]._fields.                                   *)

IntegerT == <<"i","n","t","e","g","e","r">>
Many2one == <<"m","a","n","y","2","o","n","e">>
Many2oneReference == <<"m","a","n","y","2","o","n","e","_","r","e","f">>

DotId == <<".","i","d">>
IdName == <<"i","d">>

IrModel ==
    { [id |-> 1, model |-> "res.partner"],
      [id |-> 2, model |-> "res.country"] }

IrModelFields ==
    { [id |-> 1, name |-> <<"r">>, model_id |-> 1, ttype |-> Many2one, relation |-> "res.country"],
      [id |-> 2, name |-> IdName,  model_id |-> 1, ttype |-> IntegerT, relation |-> "" ],
      [id |-> 3, name |-> <<"o">>, model_id |-> 1, ttype |-> Many2oneReference, relation |-> "" ],
      [id |-> 4, name |-> <<"r">>, model_id |-> 2, ttype |-> Many2one, relation |-> "res.partner"] }

FieldIds == { fr.id : fr \in IrModelFields }
FieldRefs == FieldIds \cup {Unset}

FieldRec(fid) == CHOOSE fr \in IrModelFields : fr.id = fid
ModelRec(mid) == CHOOSE mr \in IrModel : mr.id = mid

(* env[model]._fields[name].get_description(env)["string"]; field "o" of    *)
(* res.partner has a catalogue record but is not in the live registry.     *)
Registry ==
    { [model |-> "res.partner", name |-> <<"r">>, string |-> <<"C">>],
      [model |-> "res.partner", name |-> IdName,  string |-> <<"I">>],
      [model |-> "res.country", name |-> <<"r">>, string |-> <<"P">>] }

HasDescription(mid, fname) ==
    /\ mid # Unset
    /\ \E d \in Registry : d.model = ModelRec(mid).model /\ d.name = fname

Description(mid, fname) ==
    (CHOOSE d \in Registry : d.model = ModelRec(mid).model /\ d.name = fname).string

(* ir.exports: each export and its target model (model1_id is related to it) *)
Exports == {1, 2}
ExportModel(e) == IF e = 1 THEN 1 ELSE 2

----------------------------------------------------------------------------
(* Records *)

NoLine ==
    [exists |-> FALSE, export_id |-> Unset, name |-> EmptyStr,
     f |-> [k \in Levels |-> Unset], m |-> [k \in Levels |-> Unset], label |-> EmptyStr]

NewLine(e) ==
    [exists |-> TRUE, export_id |-> e, name |-> EmptyStr,
     f |-> [k \in Levels |-> Unset],
     m |-> [k \in Levels |-> IF k = 1 THEN ExportModel(e) ELSE Unset],
     label |-> EmptyStr]

field_n(one, n) == one.f[n]
model_n(one, n) == one.m[n]

----------------------------------------------------------------------------
(* The computes *)

RECURSIVE SelectedNames(_, _)
SelectedNames(one, n) ==
    IF n > MaxDepth THEN <<>>
    ELSE IF field_n(one, n) # Unset
         THEN <<FieldRec(field_n(one, n)).name>> \o SelectedNames(one, n + 1)
         ELSE SelectedNames(one, n + 1)

(* Variant: the loop stops one level short (range(1, 4)) *)
ComputeNameThree(one) == Join(SelectedNames([one EXCEPT !.f[MaxDepth] = Unset], 1))

ComputeName(one) == Join(SelectedNames(one, 1))

ComputeModel(fid) ==
    IF fid = Unset THEN Unset
    ELSE IF ~Contains("2", FieldRec(fid).ttype) THEN Unset
    ELSE LET found == { mr \in IrModel : mr.model = FieldRec(fid).relation }
         IN  IF found = {} THEN Unset ELSE (CHOOSE mr \in found : TRUE).id

RECURSIVE LabelParts(_, _, _)
LabelParts(one, n, acc) ==
    IF n > MaxDepth THEN acc
    ELSE IF field_n(one, n) = Unset THEN acc
    ELSE IF ~HasDescription(model_n(one, n), FieldRec(field_n(one, n)).name) THEN <<>>
    ELSE LabelParts(one, n + 1,
            Append(acc, Description(model_n(one, n), FieldRec(field_n(one, n)).name)))

ComputeLabel(one) ==
    LET ps == LabelParts(one, 1, <<>>)
    IN  IF ps # <<>> /\ one.name # EmptyStr
        THEN Join(ps) \o <<" ", "(">> \o one.name \o <<")">>
        ELSE EmptyStr

(* Variant: the search leaves out the ("model_id", "=", model.id) term *)
GetFieldIdAnyModel(mid, rawname) ==
    LET name == IF rawname = DotId THEN IdName ELSE rawname
        found == { fr \in IrModelFields : fr.name = name }
    IN  IF found = {} THEN Unset ELSE (CHOOSE fr \in found : TRUE).id

GetFieldId(mid, rawname) ==
    LET name == IF rawname = DotId THEN IdName ELSE rawname
        found == { fr \in IrModelFields : fr.name = name /\ fr.model_id = mid }
    IN  IF found = {} THEN Unset ELSE (CHOOSE fr \in found : TRUE).id

(* Variant: the constraint does not look at the skip_check context key *)
CheckNameNoSkip(ls, l, skip) ==
    IF ls[l].label = EmptyStr THEN "notexist"
    ELSE IF Cardinality({ x \in DOMAIN ls :
                            /\ ls[x].exists
                            /\ ls[x].export_id = ls[l].export_id
                            /\ ls[x].name = ls[l].name }) > 1
         THEN "exists"
    ELSE "ok"

(* Variant: the count of lines with the same name is compared with 2 *)
CheckNameOffByOne(ls, l, skip) ==
    IF skip THEN "ok"
    ELSE IF ls[l].label = EmptyStr THEN "notexist"
    ELSE IF Cardinality({ x \in DOMAIN ls :
                            /\ ls[x].exists
                            /\ ls[x].export_id = ls[l].export_id
                            /\ ls[x].name = ls[l].name }) > 2
         THEN "exists"
    ELSE "ok"

CheckName(ls, l, skip) ==
    IF skip THEN "ok"
    ELSE IF ls[l].label = EmptyStr THEN "notexist"
    ELSE IF Cardinality({ x \in DOMAIN ls :
                            /\ ls[x].exists
                            /\ ls[x].export_id = ls[l].export_id
                            /\ ls[x].name = ls[l].name }) > 1
         THEN "exists"
    ELSE "ok"

----------------------------------------------------------------------------
(* The ORM's dependency triggers on an assignment to field<k>_id           *)

RecomputeName(one, protected) ==
    IF protected \/ ComputeName(one) = one.name THEN one
    ELSE [one EXCEPT !.name = ComputeName(one)]

(* Variant: _compute_model<k+1>_id reads field<k+1>_id instead of field<k>_id *)
RecomputeModelWrongField(one, k) ==
    IF k < MaxDepth THEN [one EXCEPT !.m[k + 1] = ComputeModel(one.f[k + 1])] ELSE one

(* Variant: model<k+1>_id is not recomputed when field<k>_id is assigned *)
RecomputeModelStale(one, k) == one

RecomputeModel(one, k) ==
    IF k < MaxDepth THEN [one EXCEPT !.m[k + 1] = ComputeModel(one.f[k])] ELSE one

RecomputeLabel(one, protected) ==
    IF protected THEN one ELSE [one EXCEPT !.label = ComputeLabel(one)]

(* Variant: the cached label is not invalidated before the constraint runs *)
InvalidateLabelNoop(one) == one

(* one.invalidate_recordset(["label"]): the next read of label recomputes it *)
InvalidateLabel(one) == [one EXCEPT !.label = ComputeLabel(one)]

(* label is not stored: a later transaction reads a freshly computed label *)
CommitLine(one) == [one EXCEPT !.label = ComputeLabel(one)]

AssignSelector(one, k, v, protected) ==
    IF one.f[k] = v THEN one
    ELSE RecomputeLabel(
            RecomputeModel(
                RecomputeName([one EXCEPT !.f[k] = v], protected), k), protected)

----------------------------------------------------------------------------
(* Inputs *)

AllLines == 1..SibNumLines

SegNames == { EmptyStr, <<"r">>, DotId, <<"o">> }
SibSegNames == { EmptyStr, <<"r">>, DotId, IdName }

Paths(segs, counts) == { Join(s) : s \in UNION { [1..n -> segs] : n \in counts } }

PathInputs == Paths(SegNames, 1..MaxSegs)
SibPathInputs == Paths(SibSegNames, {1, 2})
SibLevels == {1, 2}

----------------------------------------------------------------------------
(* Behaviour *)

Init ==
    /\ lines = [l \in AllLines |-> NoLine]
    /\ pc = "idle"
    /\ op = "none"
    /\ cur = 1
    /\ parts = <<>>
    /\ num = 0
    /\ saved = [l \in AllLines |-> NoLine]
    /\ err = "none"
    /\ nchecks = 0
    /\ nlookups = 0
    /\ nassigned = 0

Target(l, e) == IF lines[l].exists THEN lines[l] ELSE NewLine(e)

(* write({"field<k>_id": v}) or create({"export_id": e, "field<k>_id": v}) *)
WriteField(l, e, k, v) ==
    /\ pc = "idle"
    /\ lines[l].exists => lines[l].export_id = e
    /\ LET one == AssignSelector(Target(l, e), k, v, FALSE)
           ls  == [lines EXCEPT ![l] = one]
       IN  /\ lines' = ls
           /\ err' = CheckName(ls, l, FALSE)
    /\ saved' = lines
    /\ pc' = "done"
    /\ op' = "field"
    /\ cur' = l
    /\ nchecks' = 1
    /\ nassigned' = 1
    /\ UNCHANGED <<parts, num, nlookups>>

(* Variant: the depth test is off by one *)
DepthExceededOffByOne(ps) == Len(ps) > MaxDepth + 1

DepthExceeded(ps) == Len(ps) > MaxDepth

(* write({"name": path}) or create({"export_id": e, "name": path}):        *)
(* the value is stored, then _inverse_name starts.                         *)
WriteName(l, e, path) ==
    /\ pc = "idle"
    /\ lines[l].exists => lines[l].export_id = e
    /\ lines' = [lines EXCEPT ![l] = [Target(l, e) EXCEPT !.name = path]]
    /\ saved' = lines
    /\ op' = "name"
    /\ cur' = l
    /\ parts' = Split(path)
    /\ nchecks' = 0
    /\ nlookups' = 0
    /\ nassigned' = 0
    /\ IF DepthExceeded(parts')
       THEN pc' = "done" /\ err' = "depth" /\ num' = 0
       ELSE pc' = "inverse" /\ err' = "none" /\ num' = 1

(* One iteration of the loop of _inverse_name *)
InverseStep ==
    /\ pc = "inverse"
    /\ num <= MaxDepth
    /\ IF ~AnyPart(parts) \/ num > Len(parts)
       THEN LET one == AssignSelector(lines[cur], num, Unset, TRUE)
                ls  == [lines EXCEPT ![cur] = one]
                res == CheckName(ls, cur, TRUE)
            IN  /\ lines' = ls
                /\ nassigned' = nassigned + 1
                /\ IF res = "ok"
                   THEN pc' = "inverse" /\ num' = num + 1 /\ err' = err
                   ELSE pc' = "done" /\ num' = num /\ err' = res
                /\ UNCHANGED nlookups
       ELSE LET fid == GetFieldId(model_n(lines[cur], num), parts[num])
                one == AssignSelector(lines[cur], num, fid, TRUE)
                ls  == [lines EXCEPT ![cur] = one]
                res == CheckName(ls, cur, TRUE)
            IN  /\ nlookups' = nlookups + 1
                /\ IF fid = Unset
                   THEN /\ pc' = "done" /\ err' = "notfound" /\ num' = num
                        /\ UNCHANGED <<lines, nassigned>>
                   ELSE /\ lines' = ls
                        /\ nassigned' = nassigned + 1
                        /\ IF res = "ok"
                           THEN pc' = "inverse" /\ num' = num + 1 /\ err' = err
                           ELSE pc' = "done" /\ num' = num /\ err' = res
    /\ UNCHANGED <<op, cur, parts, saved, nchecks>>

(* After the loop: invalidate label and run the constraint, if any(parts) *)
InverseFinish ==
    /\ pc = "inverse"
    /\ num > MaxDepth
    /\ IF AnyPart(parts)
       THEN LET ls == [lines EXCEPT ![cur] = InvalidateLabel(lines[cur])]
            IN  /\ lines' = ls
                /\ err' = CheckName(ls, cur, FALSE)
                /\ nchecks' = nchecks + 1
       ELSE /\ err' = "ok"
            /\ UNCHANGED <<lines, nchecks>>
    /\ pc' = "done"
    /\ UNCHANGED <<op, cur, parts, num, saved, nlookups, nassigned>>

(* The transaction ends: a ValidationError rolls the write back; otherwise *)
(* it is committed and the non-stored label is computed on its next read.  *)
Finish ==
    /\ pc = "done"
    /\ lines' = IF err = "ok"
                THEN [lines EXCEPT ![cur] = CommitLine(lines[cur])]
                ELSE saved
    /\ pc' = "idle"
    /\ op' = "none"
    /\ cur' = 1
    /\ parts' = <<>>
    /\ num' = 0
    /\ saved' = [l \in AllLines |-> NoLine]
    /\ err' = "none"
    /\ nchecks' = 0
    /\ nlookups' = 0
    /\ nassigned' = 0

FieldWrites(ls, lv) ==
    /\ pc = "idle"
    /\ \E l \in ls, e \in Exports, k \in lv, v \in FieldRefs : WriteField(l, e, k, v)

NameWrites(ls, ps) ==
    /\ pc = "idle"
    /\ \E l \in ls, e \in Exports, p \in ps : WriteName(l, e, p)

Next ==
    \/ FieldWrites({1}, Levels)
    \/ NameWrites({1}, PathInputs)
    \/ InverseStep
    \/ InverseFinish
    \/ Finish

Spec == Init /\ [][Next]_vars

SibNext ==
    \/ FieldWrites(1..SibNumLines, SibLevels)
    \/ NameWrites(1..SibNumLines, SibPathInputs)
    \/ InverseStep
    \/ InverseFinish
    \/ Finish

SibSpec == Init /\ [][SibNext]_vars

----------------------------------------------------------------------------
(* The catalogue as the specification words it, used to state the claims   *)
(* independently of the operators above.                                   *)

One2many == <<"o","n","e","2","m","a","n","y">>
Many2many == <<"m","a","n","y","2","m","a","n","y">>
RelationalTypes == { Many2one, One2many, Many2many }

SpecAlias(seg) == IF seg = DotId THEN IdName ELSE seg

SpecFieldOn(mid, seg) ==
    IF \E fr \in IrModelFields : fr.model_id = mid /\ fr.name = SpecAlias(seg)
    THEN (CHOOSE fr \in IrModelFields : fr.model_id = mid /\ fr.name = SpecAlias(seg)).id
    ELSE Unset

SpecTarget(fid) ==
    IF fid = Unset THEN Unset
    ELSE IF /\ FieldRec(fid).ttype \in RelationalTypes
            /\ \E mr \in IrModel : mr.model = FieldRec(fid).relation
         THEN (CHOOSE mr \in IrModel : mr.model = FieldRec(fid).relation).id
         ELSE Unset

RECURSIVE SpecChainField(_, _, _)
SpecChainField(ps, m1, k) ==
    SpecFieldOn(IF k = 1 THEN m1 ELSE SpecTarget(SpecChainField(ps, m1, k - 1)), ps[k])

SpecChainOK(ps, m1, k) == \A j \in 1..k : SpecChainField(ps, m1, j) # Unset

RECURSIVE PrefixNames(_, _)
PrefixNames(one, n) ==
    IF n > 4 \/ one.f[n] = Unset THEN <<>>
    ELSE <<FieldRec(one.f[n]).name>> \o PrefixNames(one, n + 1)

Root == ExportModel(lines[cur].export_id)
NameWritten == op = "name"
NameDone == pc = "done" /\ op = "name"
LoopCompleted == num > 4

----------------------------------------------------------------------------
(* C1 (as claimed): after a successful direct selector write that changed  *)
(* a selector, name is the "/"-join of the technical names of field1..4    *)
(* taken up to, and not past, the first unset selector.                    *)
C1_ForwardStopsAtFirstUnset ==
    (pc = "done" /\ op = "field" /\ err = "ok" /\ lines[cur].f # saved[cur].f)
        => lines[cur].name = Join(PrefixNames(lines[cur], 1))

(* C2 (as claimed): every accepted path, ".id" segments included, is       *)
(* re-derived from the resulting selectors as exactly the original string. *)
C2_RoundTripExact ==
    (NameDone /\ err = "ok" /\ AnyPart(parts))
        => ComputeName(lines[cur]) = Join(parts)

(* C2 (amended): every accepted path is re-derived from the resulting      *)
(* selectors as the original string with each ".id" segment replaced by    *)
(* "id"; so exactly the original string when no segment is ".id".          *)
C2_RoundTripUpToIdAlias ==
    (NameDone /\ err = "ok" /\ AnyPart(parts))
        => ComputeName(lines[cur]) = Join([k \in 1..Len(parts) |-> SpecAlias(parts[k])])

C2_Witness ==
    /\ NameDone /\ err = "ok" /\ Len(parts) = 3
    /\ parts[3] = DotId
    /\ ComputeName(lines[cur]) = <<"r", "/", "r", "/", "i", "d">>

(* C3: a name of 5 or more segments always fails with the depth error,     *)
(* whatever the segments are, before any segment is looked up and before   *)
(* any selector of the line is assigned.                                   *)
C3_DepthExceeded ==
    (NameWritten /\ Len(parts) >= 5)
        => /\ pc = "done"
           /\ err = "depth"
           /\ nlookups = 0
           /\ nassigned = 0
           /\ lines[cur].f = saved[cur].f
           /\ lines[cur].m = (IF saved[cur].exists THEN saved[cur].m ELSE NewLine(lines[cur].export_id).m)

C3_Witness ==
    /\ NameDone /\ err = "depth" /\ Len(parts) = 5
    /\ saved[cur].exists /\ saved[cur].f[1] # Unset
    /\ parts[1] = <<"r">> /\ parts[2] = EmptyStr /\ parts[5] = <<"o">>

C4_BadSegment ==
    /\ Len(parts) <= 4
    /\ \E k \in 1..Len(parts) :
          /\ parts[k] # EmptyStr
          /\ SpecChainOK(parts, Root, k - 1)
          /\ SpecChainField(parts, Root, k) = Unset

(* C4: a name of at most 4 segments whose segment k names a field missing  *)
(* on model[k] (".id" being looked up as "id") fails with the "not found"  *)
(* error and the write is rolled back, so it never completes.              *)
C4_FieldResolutionFailure ==
    [][(NameDone /\ C4_BadSegment) => (err = "notfound" /\ lines' = saved)]_vars

C4_Witness ==
    /\ NameDone /\ C4_BadSegment /\ err = "notfound"
    /\ parts[1] = DotId /\ nlookups = 2 /\ lines[cur].f[1] # Unset

C6_DependentModels ==
    \A l \in AllLines : \A k \in 2..4 : lines[l].m[k] = SpecTarget(lines[l].f[k - 1])

C6_Witness ==
    /\ pc = "inverse"
    /\ lines[cur].f[1] = 1 /\ lines[cur].m[2] = 2
    /\ lines[cur].f[2] = 4 /\ lines[cur].m[3] = 1
    /\ lines[cur].f[3] = 3 /\ lines[cur].m[4] = Unset

(* C7: whenever the constraint has run (not skipped) on a line whose label *)
(* is unset, the write fails with the "does not exist" error; no validated *)
(* write succeeds with the label unset.                                    *)
C7_UnsetLabelFails ==
    (pc = "done" /\ nchecks >= 1 /\ ComputeLabel(lines[cur]) = EmptyStr)
        => err = "notexist"

C7_Witness ==
    /\ NameDone /\ err = "notexist" /\ nchecks = 1 /\ nassigned = 4
    /\ lines[cur].f[3] = 3
    /\ SpecChainOK(parts, Root, 3)

(* C8 (as claimed): between writes, the name of every line has at most 4   *)
(* segments and each non-empty segment k is the technical name of          *)
(* field[k], an existing field of model[k].                                *)
C8_PathResolution ==
    pc = "idle" =>
        \A l \in AllLines :
            lines[l].exists =>
                LET ps == Split(lines[l].name)
                IN  /\ Len(ps) <= 4
                    /\ \A k \in 1..Len(ps) :
                          ps[k] # EmptyStr =>
                             /\ lines[l].f[k] # Unset
                             /\ FieldRec(lines[l].f[k]).name = SpecAlias(ps[k])
                             /\ FieldRec(lines[l].f[k]).model_id =
                                   (IF k = 1 THEN ExportModel(lines[l].export_id)
                                    ELSE SpecTarget(lines[l].f[k - 1]))

(* C9: the inverse derivation resolves segment k on the model that the     *)
(* field just assigned to field[k-1] leads to: when the whole path         *)
(* resolves the loop completes with field[k] the field named by segment k  *)
(* for k <= n and unset for k > n; when field[k-1] is not relational and a *)
(* segment k follows, it fails with the "not found" error.                 *)
C9_InverseFollowsChain ==
    (NameDone /\ Len(parts) <= 4 /\ AnyPart(parts)) =>
        /\ SpecChainOK(parts, Root, Len(parts)) <=> LoopCompleted
        /\ LoopCompleted =>
              \A k \in 1..4 :
                 lines[cur].f[k] = (IF k <= Len(parts) THEN SpecChainField(parts, Root, k) ELSE Unset)
        /\ err = "ok" => LoopCompleted
        /\ \A k \in 2..Len(parts) :
              (SpecChainOK(parts, Root, k - 1) /\ SpecTarget(SpecChainField(parts, Root, k - 1)) = Unset)
                  => (err = "notfound" /\ num = k)

C9_Witness ==
    /\ NameDone /\ err = "ok" /\ Len(parts) = 2
    /\ saved[cur].exists
    /\ saved[cur].m[2] # Unset
    /\ lines[cur].m[2] # Unset
    /\ saved[cur].m[2] # lines[cur].m[2]
    /\ FieldRec(lines[cur].f[2]).model_id = lines[cur].m[2]

(* C10: no selector assignment of the inverse derivation runs the          *)
(* constraint or raises from it, whatever the intermediate label or        *)
(* sibling names; once the four assignments are done the constraint runs   *)
(* exactly once if name has a non-empty segment and not at all otherwise,  *)
(* in which case all four selectors are unset and the write succeeds.      *)
C10_DeferredValidation ==
    NameWritten =>
        /\ pc = "inverse" => (nchecks = 0 /\ err = "none" /\ nassigned = num - 1)
        /\ (pc = "done" /\ ~LoopCompleted) => (nchecks = 0 /\ err \in {"depth", "notfound"})
        /\ (pc = "done" /\ LoopCompleted) =>
              /\ nassigned = 4
              /\ nchecks = (IF AnyPart(parts) THEN 1 ELSE 0)
              /\ ~AnyPart(parts) =>
                    (err = "ok" /\ \A k \in 1..4 : lines[cur].f[k] = Unset)

C10_Witness ==
    /\ pc = "inverse" /\ num = 3
    /\ lines[cur].label = EmptyStr
    /\ lines[cur].f[2] # Unset
    /\ \E b \in AllLines :
          /\ b # cur /\ lines[b].exists
          /\ lines[b].export_id = lines[cur].export_id
          /\ lines[b].name = lines[cur].name
====
